---- MODULE Spec2Model ----
(***************************************************************************)
(* Market-data acquisition engine of nara-degen: symbol normalisation,     *)
(* the in-memory TTL cache, the retrying fetcher, the chart/quote data     *)
(* access layer and the snapshot orchestration of MarketDataService.       *)
(*                                                                         *)
(* Tickers are modelled as sequences of one-character strings so that      *)
(* startsWith / includes / concatenation are computed as the code does.    *)
(* Time is the value of Date.now() in milliseconds.                        *)
(***************************************************************************)
EXTENDS Integers, Sequences, FiniteSets, TLC

VARIABLES
    symPc, symIn, symOut, symOut2,          \* symbol normaliser harness
    now, cache, lastOp, lastSet,            \* clock, cache Map, last cache call
    rt, script,                             \* withRetry run, the operation's outcomes
    mPc, mStock, mIn, mRes,                 \* one StockCall through the callback / catch
    inv, prov, provN, ticks,                \* snapshot invocations, the provider
    mounted, isLoading, stocks, refreshes, fires   \* the dashboard component

symVars   == <<symPc, symIn, symOut, symOut2>>
cacheVars == <<now, cache, lastOp, lastSet>>
retryVars == <<rt, script>>
metricVars == <<mPc, mStock, mIn, mRes>>
snapVars  == <<inv, prov, provN, ticks>>
dashVars  == <<mounted, isLoading, stocks, refreshes, fires>>
vars      == <<symVars, cacheVars, retryVars, metricVars, snapVars, dashVars>>

\* undefined; every JavaScript value of the model is a record or a sequence,
\* so that any two of them can be compared
None == [undefined |-> TRUE]
\* null / a number, for a `number | null`
Null == <<>>
Num(n) == <<n>>

\* ------------------------------------------------------------------------
\* Bounds
\* ------------------------------------------------------------------------
MaxLen  == 3      \* longest ticker enumerated exhaustively over SymAlphabet
MaxTime == 4      \* cache harness: last instant of the clock
MaxTtl  == 2      \* cache harness: largest ttlMs passed to setCache
ScriptLen == 4    \* retry harness: invocations for which the operation's outcome is fixed
MaxPoints == 2    \* metrics harness: longest series returned by the provider
MaxInv  == 2      \* snapshots: invocations of fetchStocksWithMarketData
MaxTicks == 1     \* snapshots: times the clock advances other than by a backoff timer
MaxFires == 2     \* dashboard: times the 5-minute interval fires

\* ------------------------------------------------------------------------
\* Symbol normaliser (mapIndonesianSymbol)
\* ------------------------------------------------------------------------
SymAlphabet == {"^", ".", ":", "A", "L"}

LQ45      == <<"L","Q","4","5">>
LQ45_JK   == <<"L","Q","4","5",".","J","K">>
IDX_LQ45  == <<"I","D","X",":","L","Q","4","5">>
JKSE      == <<"J","K","S","E">>
CARET_JKLQ45 == <<"^","J","K","L","Q","4","5">>
CARET_JKSE   == <<"^","J","K","S","E">>
CARET_LQ45   == <<"^","L","Q","4","5">>
DOT_JK    == <<".","J","K">>

StartsWith(t, c) == Len(t) > 0 /\ t[1] = c
Includes(t, c)   == \E i \in 1..Len(t) : t[i] = c

\* a plausible slip: the "already formatted" test forgets the '.' case
mapIndonesianSymbol_NoDotCheck(ticker) ==
    IF ticker = LQ45 \/ ticker = LQ45_JK \/ ticker = IDX_LQ45 THEN CARET_JKLQ45
    ELSE IF ticker = JKSE /\ ~StartsWith(ticker, "^") THEN CARET_JKSE
    ELSE IF StartsWith(ticker, "^") THEN ticker
    ELSE ticker \o DOT_JK

\* a plausible slip: '^' is looked for anywhere instead of as a prefix
mapIndonesianSymbol_CaretAnywhere(ticker) ==
    IF ticker = LQ45 \/ ticker = LQ45_JK \/ ticker = IDX_LQ45 THEN CARET_JKLQ45
    ELSE IF ticker = JKSE /\ ~StartsWith(ticker, "^") THEN CARET_JKSE
    ELSE IF Includes(ticker, "^") \/ Includes(ticker, ".") THEN ticker
    ELSE ticker \o DOT_JK

mapIndonesianSymbol(ticker) ==
    IF ticker = LQ45 \/ ticker = LQ45_JK \/ ticker = IDX_LQ45 THEN CARET_JKLQ45
    ELSE IF ticker = JKSE /\ ~StartsWith(ticker, "^") THEN CARET_JKSE
    ELSE IF StartsWith(ticker, "^") \/ Includes(ticker, ".") THEN ticker
    ELSE IF ~Includes(ticker, ".") /\ ~StartsWith(ticker, "^") THEN ticker \o DOT_JK
    ELSE ticker

\* the inputs: every string over SymAlphabet up to MaxLen, the aliases and
\* canonical symbols, and their near misses (prefixes, one character added
\* in front or behind)
RECURSIVE StringsUpTo(_)
StringsUpTo(n) ==
    IF n = 0 THEN {<<>>}
    ELSE LET shorter == StringsUpTo(n - 1)
         IN  shorter \cup {s \o <<c>> : s \in {x \in shorter : Len(x) = n - 1}, c \in SymAlphabet}

KnownSymbols == {LQ45, LQ45_JK, IDX_LQ45, JKSE, CARET_JKLQ45, CARET_JKSE, CARET_LQ45,
                 <<"A","N","J","T",".","J","K">>, <<"I","D","X",":","A">>}

NearMisses ==
    UNION {   {SubSeq(s, 1, n) : n \in 0..Len(s)}
         \cup {s \o <<c>> : c \in SymAlphabet}
         \cup {<<c>> \o s : c \in SymAlphabet}
         \cup {s \o DOT_JK}
         : s \in KnownSymbols}

Tickers == StringsUpTo(MaxLen) \cup KnownSymbols \cup NearMisses

SymInit ==
    /\ symPc = "input"
    /\ symIn \in Tickers
    /\ symOut = <<>>
    /\ symOut2 = <<>>

SymIdle ==
    /\ symPc = "off"
    /\ symIn = <<>>
    /\ symOut = <<>>
    /\ symOut2 = <<>>

\* first application: mapIndonesianSymbol(x)
Normalize ==
    /\ symPc = "input"
    /\ symOut' = mapIndonesianSymbol(symIn)
    /\ symPc' = "mapped"
    /\ UNCHANGED <<symIn, symOut2>>

\* second application: mapIndonesianSymbol(mapIndonesianSymbol(x))
Renormalize ==
    /\ symPc = "mapped"
    /\ symOut2' = mapIndonesianSymbol(symOut)
    /\ symPc' = "remapped"
    /\ UNCHANGED <<symIn, symOut>>

\* ------------------------------------------------------------------------
\* Cache: const cache = new Map<string, CacheEntry>()
\* A Map is a function whose domain is the set of keys present.
\* ------------------------------------------------------------------------
MapHas(m, k)    == k \in DOMAIN m
MapPut(m, k, e) == [x \in (DOMAIN m) \cup {k} |-> IF x = k THEN e ELSE m[x]]
MapDel(m, k)    == [x \in (DOMAIN m) \ {k} |-> m[x]]
EmptyMap        == [x \in {} |-> None]

\* a plausible slip: entries expire one instant early (>= instead of >)
getCacheValue_ExpireAtTtl(c, key, t) ==
    IF ~MapHas(c, key) THEN None
    ELSE IF t >= c[key].expires THEN None
    ELSE c[key].value

\* value returned by getCache(key) at time t
getCacheValue(c, key, t) ==
    IF ~MapHas(c, key) THEN None
    ELSE IF t > c[key].expires THEN None
    ELSE c[key].value

\* a plausible slip: the expired entry is reported as a miss but not deleted
getCacheMap_NoEvict(c, key, t) == c

\* the Map after getCache(key) at time t
getCacheMap(c, key, t) ==
    IF MapHas(c, key) /\ t > c[key].expires THEN MapDel(c, key) ELSE c

\* a plausible slip: a set never shortens the life of an entry
setCacheMap_KeepLaterExpiry(c, key, value, ttlMs, t) ==
    MapPut(c, key, [value |-> value,
                    expires |-> IF MapHas(c, key) /\ c[key].expires > t + ttlMs
                                THEN c[key].expires ELSE t + ttlMs])

\* a plausible slip: an entry that is there is not replaced
setCacheMap_FirstWriterWins(c, key, value, ttlMs, t) ==
    IF MapHas(c, key) THEN c ELSE MapPut(c, key, [value |-> value, expires |-> t + ttlMs])

\* the Map after setCache(key, value, ttlMs) at time t
setCacheMap(c, key, value, ttlMs, t) ==
    MapPut(c, key, [value |-> value, expires |-> t + ttlMs])

\* --- cache harness: arbitrary get / set calls while time passes ---
HKeys   == {"k1", "k2"}
HValues == {[v |-> 1], [v |-> 2]}
NoOp    == [op |-> "none"]

CacheInit ==
    /\ now = 0
    /\ cache = EmptyMap
    /\ lastOp = NoOp
    /\ lastSet = EmptyMap

HGet(k) ==
    /\ lastOp' = [op |-> "get", key |-> k, at |-> now, before |-> cache,
                  result |-> getCacheValue(cache, k, now)]
    /\ cache' = getCacheMap(cache, k, now)
    /\ UNCHANGED <<now, lastSet>>

HSet(k, v, ttl) ==
    /\ lastOp' = [op |-> "set", key |-> k, at |-> now, before |-> cache,
                  value |-> v, ttl |-> ttl]
    /\ cache' = setCacheMap(cache, k, v, ttl, now)
    /\ lastSet' = MapPut(lastSet, k, [at |-> now, value |-> v, ttl |-> ttl])
    /\ UNCHANGED now

HTick ==
    /\ now < MaxTime
    /\ now' = now + 1
    /\ lastOp' = NoOp
    /\ UNCHANGED <<cache, lastSet>>

\* ------------------------------------------------------------------------
\* Retrying fetcher (withRetry)
\* A run of withRetry is a record: pc is where the async function stands
\* ("inflight": awaiting fn(); "sleep": awaiting the setTimeout promise;
\* "returned" / "threw": settled), i the loop index, calls the number of
\* times fn was invoked, waits the delays slept so far.
\* ------------------------------------------------------------------------
delays == <<200, 500, 1000>>

Ok(v)  == [ok |-> TRUE,  val |-> v,    err |-> None]
Err(e) == [ok |-> FALSE, val |-> None, err |-> e]

\* entering withRetry: i = 0 < delays.length, fn() is invoked at once
withRetryStart ==
    [pc |-> "inflight", i |-> 0, calls |-> 1, lastErr |-> None,
     waits |-> <<>>, wakeAt |-> 0, value |-> None, thrown |-> None]

\* a plausible slip: only the first error is remembered
withRetrySettle_FirstErr(r, out, t) ==
    IF out.ok
    THEN [r EXCEPT !.pc = "returned", !.value = out.val]
    ELSE [r EXCEPT !.lastErr = IF r.lastErr = None THEN out.err ELSE r.lastErr,
                   !.pc = "sleep",
                   !.waits = Append(@, delays[r.i + 1]),
                   !.wakeAt = t + delays[r.i + 1]]

\* a plausible slip: a result without content is taken for a failure
withRetrySettle_RetryEmpty(r, out, t) ==
    IF out.ok /\ out.val \notin {None, [quotes |-> <<>>]}
    THEN [r EXCEPT !.pc = "returned", !.value = out.val]
    ELSE [r EXCEPT !.lastErr = out.err,
                   !.pc = "sleep",
                   !.waits = Append(@, delays[r.i + 1]),
                   !.wakeAt = t + delays[r.i + 1]]

\* fn() settles at time t: `return await fn()` or the catch block
withRetrySettle(r, out, t) ==
    IF out.ok
    THEN [r EXCEPT !.pc = "returned", !.value = out.val]
    ELSE [r EXCEPT !.lastErr = out.err,
                   !.pc = "sleep",
                   !.waits = Append(@, delays[r.i + 1]),
                   !.wakeAt = t + delays[r.i + 1]]

\* the timer fires: i++, then the loop test; either fn() is invoked again
\* or the loop ends and lastErr is thrown
withRetryWake(r) ==
    IF r.i + 1 < Len(delays)
    THEN [r EXCEPT !.i = r.i + 1, !.pc = "inflight", !.calls = @ + 1]
    ELSE [r EXCEPT !.i = r.i + 1, !.pc = "threw", !.thrown = r.lastErr]

\* --- retry harness: withRetry(fn) where the n-th invocation of fn has the
\* outcome script[n] ---
RValues  == {[r |-> 1], [r |-> 2]}
RErrors  == {[error |-> "timeout"], [error |-> "notfound"]}
Outcomes == {Ok(v) : v \in RValues} \cup {Err(e) : e \in RErrors}

RetryIdle == [pc |-> "off"]

RetryInit ==
    /\ script \in [1..ScriptLen -> Outcomes]
    /\ rt = withRetryStart

RSettle ==
    /\ rt.pc = "inflight"
    /\ rt' = withRetrySettle(rt, script[rt.calls], now)
    /\ UNCHANGED <<script, now>>

RTimerElapse ==
    /\ rt.pc = "sleep"
    /\ now < rt.wakeAt
    /\ now' = rt.wakeAt
    /\ UNCHANGED <<rt, script>>

RWake ==
    /\ rt.pc = "sleep"
    /\ now >= rt.wakeAt
    /\ rt' = withRetryWake(rt)
    /\ UNCHANGED <<script, now>>

\* ------------------------------------------------------------------------
\* Metrics (the body of the stockCalls.map callback and the catch handler)
\* A provider chart item carries a Date; dates are counted in DayUnit-ths of
\* a day, so an item's Date has a time of day that toISOString().split('T')[0]
\* cuts off.  A MarketDataPoint carries the day string, modelled by the day
\* number.  Only date, high and close are read by the metrics.
\* ------------------------------------------------------------------------
DayUnit == 2

\* item.date.toISOString().split('T')[0]
toISODate(d) == d \div DayUnit
\* new Date('YYYY-MM-DD').getTime()
dateTime(day) == day * DayUnit

mapHistoricalData(result) ==
    [n \in 1..Len(result) |->
        [date |-> toISODate(result[n].date), high |-> result[n].high, close |-> result[n].close]]

\* truthiness of a price: undefined, null and 0 are all falsy and are all
\* written 0
Truthy(price) == price # 0

\* a JavaScript number that results from (a - b) / b * 100: finite values
\* are kept as the exact fraction num / den, a zero divisor gives the IEEE
\* values
Pct(a, b) ==
    IF b # 0 THEN [kind |-> "fin", num |-> (a - b) * 100, den |-> b]
    ELSE IF a - b > 0 THEN [kind |-> "+inf", num |-> 1, den |-> 0]
    ELSE IF a - b < 0 THEN [kind |-> "-inf", num |-> -1, den |-> 0]
    ELSE [kind |-> "nan", num |-> 0, den |-> 0]
Zero == [kind |-> "fin", num |-> 0, den |-> 1]

\* a >= b on such numbers (false as soon as one side is NaN)
NumGE(a, b) ==
    /\ a.kind # "nan" /\ b.kind # "nan"
    /\ \/ a.kind = "+inf"
       \/ b.kind = "-inf"
       \/ /\ a.kind = "fin" /\ b.kind = "fin"
          /\ (a.num * b.den - b.num * a.den) * (a.den * b.den) >= 0
NumEQ(a, b) == NumGE(a, b) /\ NumGE(b, a)

Max2(a, b) == IF a >= b THEN a ELSE b
RECURSIVE MaxHigh(_)
MaxHigh(points) ==
    IF Len(points) = 1 THEN points[1].high
    ELSE Max2(points[1].high, MaxHigh(Tail(points)))

CeilDiv(a, b) == (a + b - 1) \div b
Abs(x) == IF x < 0 THEN -x ELSE x

\* a plausible slip: a point on the call date itself is left out
SinceCall_StrictlyAfter(series, callDate) ==
    SelectSeq(series, LAMBDA d : dateTime(d.date) > dateTime(callDate))

SinceCall(series, callDate) ==
    SelectSeq(series, LAMBDA d : dateTime(d.date) >= dateTime(callDate))

\* Array.prototype.find: the first element that satisfies the test
FirstIndex(series, Test(_)) ==
    IF \E n \in 1..Len(series) : Test(series[n])
    THEN CHOOSE n \in 1..Len(series) :
             Test(series[n]) /\ \A m \in 1..(n - 1) : ~Test(series[m])
    ELSE 0

\* a plausible slip: currentPrice is not initialised with the static price
resolveCurrentPrice_NoStaticPrice(stock, historicalData, quoteOut) ==
    IF quoteOut.ok /\ quoteOut.val # None /\ Truthy(quoteOut.val.regularMarketPrice)
    THEN quoteOut.val.regularMarketPrice
    ELSE IF Len(historicalData) > 0
         THEN historicalData[Len(historicalData)].close
         ELSE 0

\* a plausible slip: the catch block of the quote fetch keeps the static price
resolveCurrentPrice_StaticOnFailure(stock, historicalData, quoteOut) ==
    IF quoteOut.ok
    THEN IF quoteOut.val # None /\ Truthy(quoteOut.val.regularMarketPrice)
         THEN quoteOut.val.regularMarketPrice
         ELSE IF Len(historicalData) > 0
              THEN historicalData[Len(historicalData)].close
              ELSE stock.currentPrice
    ELSE stock.currentPrice

\* lines 70-82: quote price, else last close of the history, else the static price
resolveCurrentPrice(stock, historicalData, quoteOut) ==
    IF quoteOut.ok
    THEN IF quoteOut.val # None /\ Truthy(quoteOut.val.regularMarketPrice)
         THEN quoteOut.val.regularMarketPrice
         ELSE IF Len(historicalData) > 0
              THEN historicalData[Len(historicalData)].close
              ELSE stock.currentPrice
    ELSE IF Len(historicalData) > 0
         THEN historicalData[Len(historicalData)].close
         ELSE stock.currentPrice

\* a plausible slip: the highest historical price alone is taken as the maximum
effectiveMaxPrice_HistoryOnly(maxPrice, currentPrice) == maxPrice

effectiveMaxPrice(maxPrice, currentPrice) == Max2(maxPrice, currentPrice)

\* lines 88-100
maxGainOf(stock, dataSinceCall, currentPrice, currentGain) ==
    IF Len(dataSinceCall) > 0
    THEN Pct(effectiveMaxPrice(MaxHigh(dataSinceCall), currentPrice), stock.entryPrice)
    ELSE currentGain

daysToMaxOf(stock, dataSinceCall) ==
    IF Len(dataSinceCall) > 0
    THEN LET maxPrice == MaxHigh(dataSinceCall)
             n == FirstIndex(dataSinceCall, LAMBDA d : d.high = maxPrice)
         IN  IF n # 0
             THEN Num(CeilDiv(Abs(dateTime(dataSinceCall[n].date) - dateTime(stock.callDate)), DayUnit))
             ELSE Null
    ELSE Null

\* a plausible slip: the return is taken from the first point of the series
getIndexReturn_FromFirstPoint(indexData, callDate) ==
    IF Len(indexData) = 0 THEN Zero
    ELSE Pct(indexData[Len(indexData)].close, indexData[1].close)

\* lines 102-110
getIndexReturn(indexData, callDate) ==
    IF Len(indexData) = 0 THEN Zero
    ELSE LET n == FirstIndex(indexData, LAMBDA d : dateTime(d.date) >= dateTime(callDate))
         IN  IF n # 0
             THEN Pct(indexData[Len(indexData)].close, indexData[n].close)
             ELSE Zero

\* lines 68-124: the value of the callback once both awaits have settled
callResult(stock, historicalData, quoteOut, marketIndices) ==
    LET currentPrice  == resolveCurrentPrice(stock, historicalData, quoteOut)
        currentGain   == Pct(currentPrice, stock.entryPrice)
        dataSinceCall == SinceCall(historicalData, stock.callDate)
    IN  [stock |-> stock,
         currentPrice |-> currentPrice,
         historicalData |-> historicalData,
         maxGain |-> maxGainOf(stock, dataSinceCall, currentPrice, currentGain),
         currentGain |-> currentGain,
         daysToMax |-> daysToMaxOf(stock, dataSinceCall),
         jkseReturn |-> getIndexReturn(marketIndices.jkse, stock.callDate),
         lq45Return |-> getIndexReturn(marketIndices.lq45, stock.callDate)]

\* lines 130-141: one element of fallbackStocks
fallbackResult(stock) ==
    LET currentGain == Pct(stock.currentPrice, stock.entryPrice)
    IN  [stock |-> stock,
         currentPrice |-> stock.currentPrice,
         historicalData |-> <<>>,
         maxGain |-> currentGain,
         currentGain |-> currentGain,
         daysToMax |-> Null,
         jkseReturn |-> Zero,
         lq45Return |-> Zero]

\* ------------------------------------------------------------------------
\* Data access layer (chart / quote)
\* A call of chart() or quote() is a record: key and mapped symbol, the run
\* of withRetry it awaits (r), the provider outcomes it has seen (log) and,
\* once it has settled, its outcome (out): Ok(result) when it returns,
\* Err(e) when it throws.  nth tells which provider call on the symbol is in
\* flight (set by the caller, which owns the provider).
\* ------------------------------------------------------------------------
ChartTtl == 15 * 60 * 1000
QuoteTtl == 60 * 1000
\* a plausible slip: quotes are kept as long as series
ttlOf_QuoteAsChart(kind) == ChartTtl
ttlOf(kind) == IF kind = "chart" THEN ChartTtl ELSE QuoteTtl

\* period1 = endDate - lookbackDays * 24 * 60 * 60 * 1000 is kept as the pair
\* it is computed from; with one lookbackDays two such Dates have the same
\* getTime() exactly when the pairs are equal
DefaultLookbackDays == 365
periodOf(endDate, lookbackDays) ==
    [start |-> [of |-> endDate, minusDays |-> lookbackDays], end |-> endDate]

chartKey(mappedTicker, options) ==
    <<"chart", mappedTicker, options.start, options.end, "1d">>
\* a plausible slip: the quote key lacks the ticker
quoteKey_Shared(mappedTicker) == <<"quote">>
quoteKey(mappedTicker) == <<"quote", mappedTicker>>

NotRun == [withRetryStart EXCEPT !.pc = "off", !.calls = 0]
NoFetch == [kind |-> "none", out |-> None]

\* lines 46-50 (chart) and 57-61 (quote): map the ticker, look the key up,
\* return the cached value if there is one, else enter withRetry
dalKey(kind, mappedTicker, options) ==
    IF kind = "chart" THEN chartKey(mappedTicker, options) ELSE quoteKey(mappedTicker)

\* line 49 (60): `if (cached) return cached`, else the call goes on to withRetry
dalCached(kind, ticker, mappedTicker, key, cached) ==
    IF cached # None
    THEN [kind |-> kind, ticker |-> ticker, mapped |-> mappedTicker,
          key |-> key, hit |-> TRUE, r |-> NotRun, log |-> <<>>,
          nth |-> 0, out |-> Ok(cached)]
    ELSE [kind |-> kind, ticker |-> ticker, mapped |-> mappedTicker,
          key |-> key, hit |-> FALSE, r |-> withRetryStart, log |-> <<>>,
          nth |-> 0, out |-> None]

\* line 48 (59): getCache(key)
dalLookup(c, kind, ticker, mappedTicker, key, t) ==
    [cache |-> getCacheMap(c, key, t),
     f |-> dalCached(kind, ticker, mappedTicker, key, getCacheValue(c, key, t))]

\* line 47 (58): the key is built from the mapped ticker
\* a plausible slip: the key is built from the ticker as it was passed
dalMapped_KeyFromTicker(c, kind, ticker, mappedTicker, options, t) ==
    dalLookup(c, kind, ticker, mappedTicker, dalKey(kind, ticker, options), t)

dalMapped(c, kind, ticker, mappedTicker, options, t) ==
    dalLookup(c, kind, ticker, mappedTicker, dalKey(kind, mappedTicker, options), t)

dalBegin(c, kind, ticker, options, t) ==
    dalMapped(c, kind, ticker, mapIndonesianSymbol(ticker), options, t)

\* a plausible slip: a failed attempt leaves an empty result in the cache
dalSettle_CacheFailure(c, f, outcome, t) ==
    LET r2 == withRetrySettle(f.r, outcome, t)
    IN  IF r2.pc = "returned"
        THEN [cache |-> setCacheMap(c, f.key, r2.value, ttlOf(f.kind), t),
              f |-> [f EXCEPT !.r = r2, !.log = Append(@, outcome), !.out = Ok(r2.value)]]
        ELSE [cache |-> setCacheMap(c, f.key, [quotes |-> <<>>], ttlOf(f.kind), t),
              f |-> [f EXCEPT !.r = r2, !.log = Append(@, outcome)]]

\* the provider call settles with `outcome` at time t; on success lines 51-52
\* (62-63) follow: store the result, return it
dalSettle(c, f, outcome, t) ==
    LET r2 == withRetrySettle(f.r, outcome, t)
    IN  IF r2.pc = "returned"
        THEN [cache |-> setCacheMap(c, f.key, r2.value, ttlOf(f.kind), t),
              f |-> [f EXCEPT !.r = r2, !.log = Append(@, outcome), !.out = Ok(r2.value)]]
        ELSE [cache |-> c,
              f |-> [f EXCEPT !.r = r2, !.log = Append(@, outcome)]]

EmptyChart == [quotes |-> <<>>]

\* a plausible slip: the exhausted fetch is turned into an empty result
dalWake_SwallowFailure(f) ==
    LET r2 == withRetryWake(f.r)
    IN  [f EXCEPT !.r = r2,
                  !.out = IF r2.pc = "threw" THEN Ok(EmptyChart) ELSE None]

\* the backoff timer fires: either the provider is called again or withRetry
\* throws, and with it chart() / quote()
dalWake(f) ==
    LET r2 == withRetryWake(f.r)
    IN  [f EXCEPT !.r = r2,
                  !.out = IF r2.pc = "threw" THEN Err(r2.thrown) ELSE None]

Settled(f)  == f.kind # "none" /\ f.out # None
InFlight(f) == f.kind # "none" /\ f.out = None /\ f.r.pc = "inflight"
Sleeping(f) == f.kind # "none" /\ f.out = None /\ f.r.pc = "sleep"

\* fetchHistoricalData, once chart() has settled with chartOut: line 23 or 25
fetchHistoricalDataResult(chartOut) ==
    IF chartOut.ok THEN mapHistoricalData(chartOut.val.quotes) ELSE <<>>
\* the branch of fetchHistoricalData that produced it
fetchHistoricalDataBranch(chartOut) ==
    IF chartOut.ok THEN "return" ELSE "catch"

\* ------------------------------------------------------------------------
\* The provider (yahooFinance.chart / yahooFinance.quote): for every symbol
\* the outcomes of its successive calls, the last one repeating
\* ------------------------------------------------------------------------
ScriptAt(sc, n) == IF n <= Len(sc) THEN sc[n] ELSE sc[Len(sc)]

\* dates are days since 2025-05-01
Day_2025_05_01 == 0
Day_2025_10_01 == 153
Day_2025_11_01 == 184

ANJT_JK == <<"A","N","J","T",".","J","K">>
TEBE_JK == <<"T","E","B","E",".","J","K">>
TEBE    == <<"T","E","B","E">>
MMLP_JK == <<"M","M","L","P",".","J","K">>

dummyStockCalls ==
    << [id |-> 1, ticker |-> ANJT_JK, entryPrice |-> 2200, currentPrice |-> 0,
        callDate |-> Day_2025_10_01],
       [id |-> 2, ticker |-> TEBE_JK, entryPrice |-> 800, currentPrice |-> 2200,
        callDate |-> Day_2025_05_01],
       [id |-> 3, ticker |-> MMLP_JK, entryPrice |-> 570, currentPrice |-> 0,
        callDate |-> Day_2025_11_01] >>

\* the stockCalls arguments: the default, a list of one call whose ticker
\* lacks the suffix, a list of two calls, and a list with an element that is
\* not an object (the parameter is not checked at run time)
CallLists ==
    { dummyStockCalls,
      << [id |-> 7, ticker |-> TEBE, entryPrice |-> 800, currentPrice |-> 2200,
          callDate |-> Day_2025_05_01] >>,
      << dummyStockCalls[1], dummyStockCalls[2] >>,
      << dummyStockCalls[2], None >> }

ChartSymbols == {CARET_JKSE, CARET_JKLQ45, CARET_LQ45, ANJT_JK, TEBE_JK, MMLP_JK}
QuoteSymbols == {ANJT_JK, TEBE_JK, MMLP_JK}
ProvKeys == {<<"chart", y>> : y \in ChartSymbols} \cup {<<"quote", y>> : y \in QuoteSymbols}

\* a provider series: highs 900, 1200, 1100, 1200 on 05-10, 06-15, 07-01, 11-05
SomeChart ==
    [quotes |-> << [date |-> 9 * DayUnit + 1,   high |-> 900,  close |-> 850],
                   [date |-> 45 * DayUnit + 1,  high |-> 1200, close |-> 1150],
                   [date |-> 61 * DayUnit + 1,  high |-> 1100, close |-> 1000],
                   [date |-> 188 * DayUnit + 1, high |-> 1200, close |-> 1190] >>]
Timeout == [error |-> "timeout"]
\* the provider does not know the symbol
NotFound == [error |-> "notfound"]
\* the promise of a provider call that never settles
NeverSettles == [pending |-> TRUE]
\* a provider quote; a price of 0 stands for no usable regularMarketPrice
Quote(price) == [regularMarketPrice |-> price]

ChartScripts ==
    { <<Ok(SomeChart)>>, <<Ok(EmptyChart)>>, <<Err(Timeout)>>, <<Err(NotFound)>>,
      <<Err(Timeout), Ok(SomeChart)>>,
      <<Err(Timeout), Err(Timeout), Err(Timeout), Ok(SomeChart)>> }
QuoteScripts ==
    { <<Ok(Quote(2200))>>, <<Ok(Quote(0))>>, <<Ok(None)>>, <<Err(Timeout)>>,
      <<Err(NotFound)>>,
      <<Err(Timeout), Err(Timeout), Ok(Quote(1000))>> }
ScriptsOf(k) == IF k[1] = "chart" THEN ChartScripts ELSE QuoteScripts

Healthy == [k \in ProvKeys |-> IF k[1] = "chart" THEN <<Ok(SomeChart)>> ELSE <<Ok(Quote(2200))>>]
Outage  == [k \in ProvKeys |-> <<Err(Timeout)>>]
\* LQ45 answers only when it is asked again as an alternative
LateLQ45 ==
    [Healthy EXCEPT ![<<"chart", CARET_JKLQ45>>] =
                        <<Err(Timeout), Err(Timeout), Err(Timeout), Ok(SomeChart)>>,
                    ![<<"chart", CARET_LQ45>>] = <<Ok(EmptyChart)>>]
\* the provider assignments: all symbols answer, none does, one symbol
\* deviates, or LQ45 answers late
ProviderAssignments ==
    {Healthy, Outage, LateLQ45}
        \cup UNION {{[Healthy EXCEPT ![k] = sc] : sc \in ScriptsOf(k)} : k \in ProvKeys}

\* ------------------------------------------------------------------------
\* Orchestrator (MarketDataService)
\* ------------------------------------------------------------------------
alternatives == <<CARET_LQ45, IDX_LQ45, LQ45_JK>>

IdleInv ==
    [pc |-> "idle", endDate |-> 0, stockCalls |-> <<>>,
     fi |-> [jkse |-> NoFetch, lq45 |-> NoFetch, alt |-> NoFetch], altIdx |-> 0,
     marketIndices |-> [jkse |-> <<>>, lq45 |-> <<>>], ct |-> <<>>, out |-> None,
     charted |-> {}, storedAt |-> EmptyMap, doneOrder |-> <<>>,
     cache0 |-> EmptyMap, doneAt |-> 0, altIssued |-> <<>>, altData |-> <<>>]

\* entering chart() / quote() on behalf of a caller: x carries the cache,
\* the provider's call counters and the caller's history
\* the caller's books once the call has looked the cache up (b): a miss is
\* one more provider call on the mapped symbol
countFetch(x, kind, b) ==
    LET pk == <<kind, b.f.mapped>>
    IN  IF b.f.hit
        THEN [x |-> [x EXCEPT !.cache = b.cache], f |-> b.f]
        ELSE [x |-> [x EXCEPT !.cache = b.cache,
                              !.provN = [@ EXCEPT ![pk] = @ + 1],
                              !.charted = IF kind = "chart" THEN @ \cup {b.f.mapped} ELSE @],
              f |-> [b.f EXCEPT !.nth = x.provN[pk] + 1]]

beginFetch(x, kind, ticker, options, t) ==
    CHOOSE r \in {countFetch(x0, kind, b) :
                     x0 \in {x}, b \in {dalBegin(x.cache, kind, ticker, options, t)}} : TRUE

NoTask == [pc |-> "none", f |-> NoFetch, historicalData |-> <<>>, res |-> None]

\* stockCalls.map(async (stock) => ...): every callback runs up to its first
\* await, in list order; reading stock.ticker of a non-object throws, which
\* rejects that callback's promise
RECURSIVE startCallbacks(_, _, _, _)
\* the promise of one callback in front of those of the callbacks after it
consTask(task, rest) == [x |-> rest.x, ct |-> <<task>> \o rest.ct]
\* a callback has reached its await with fetch b; the next callbacks start
startRest(b, stockCalls, options, t) ==
    consTask([NoTask EXCEPT !.pc = "hist", !.f = b.f],
             startCallbacks(b.x, stockCalls, options, t))
startCallbacks(x, stockCalls, options, t) ==
    IF stockCalls = <<>> THEN [x |-> x, ct |-> <<>>]
    ELSE IF Head(stockCalls) = None
         THEN consTask([NoTask EXCEPT !.pc = "rejected"],
                       startCallbacks(x, Tail(stockCalls), options, t))
         ELSE startRest(beginFetch(x, "chart", Head(stockCalls).ticker, options, t),
                        Tail(stockCalls), options, t)

\* lines 130-142: the snapshot built by the catch handler
degradedSnapshot ==
    [stocks |-> [n \in 1..Len(dummyStockCalls) |-> fallbackResult(dummyStockCalls[n])],
     marketIndices |-> [jkse |-> <<>>, lq45 |-> <<>>]]

\* lines 64-66 once marketIndices is known: start the callbacks; when one
\* of them has rejected, Promise.all rejects and the catch handler returns
\* the degraded snapshot (the other callbacks keep running)
\* a plausible slip: no top-level catch, a rejected callback rejects the call
awaitCallbacks_NoCatch(I, indices, sc) ==
    LET rejected == \E i \in 1..Len(sc.ct) : sc.ct[i].pc = "rejected"
    IN  [x |-> sc.x,
         I |-> [I EXCEPT !.marketIndices = indices,
                         !.ct = sc.ct,
                         !.charted = sc.x.charted,
                         !.pc = IF rejected THEN "rejected" ELSE "calls"]]

awaitCallbacks(I, indices, sc) ==
    LET rejected == \E i \in 1..Len(sc.ct) : sc.ct[i].pc = "rejected"
    IN  [x |-> sc.x,
         I |-> [I EXCEPT !.marketIndices = indices,
                         !.ct = sc.ct,
                         !.charted = sc.x.charted,
                         !.pc = IF rejected THEN "done" ELSE "calls",
                         !.out = IF rejected
                                 THEN [path |-> "catch", snapshot |-> degradedSnapshot]
                                 ELSE None]]

enterCallbacks(I, x, indices, t) ==
    CHOOSE r \in {awaitCallbacks(I, indices, sc) :
                     sc \in {startCallbacks(x, I.stockCalls,
                                            periodOf(I.endDate, DefaultLookbackDays), t)}} : TRUE

Ctx(n) == [cache |-> cache, provN |-> provN, charted |-> inv[n].charted]

Locs(n) ==
    {[w |-> "idx", name |-> nm] : nm \in {"jkse", "lq45", "alt"}}
        \cup {[w |-> "call", i |-> i] : i \in 1..Len(inv[n].ct)}
getF(I, loc) == IF loc.w = "idx" THEN I.fi[loc.name] ELSE I.ct[loc.i].f
putF(I, loc, f) ==
    IF loc.w = "idx" THEN [I EXCEPT !.fi[loc.name] = f] ELSE [I EXCEPT !.ct[loc.i].f = f]

SnapInit(assignments) ==
    /\ inv = [n \in 1..MaxInv |-> IdleInv]
    /\ prov \in assignments
    /\ provN = [k \in ProvKeys |-> 0]
    /\ ticks = 0

SnapIdle ==
    /\ inv = <<>>
    /\ prov = <<>>
    /\ provN = <<>>
    /\ ticks = 0

\* fetchStocksWithMarketData(stockCalls) is called: lines 61-64 and, inside
\* fetchMarketIndices, the two fetchHistoricalData calls of lines 31-34 up to
\* their first await
InvStart(n, stockCalls) ==
    /\ inv[n].pc = "idle"
    /\ \E options \in {periodOf(now, DefaultLookbackDays)} :
       \E b1 \in {beginFetch(Ctx(n), "chart", CARET_JKSE, options, now)} :
       \E b2 \in {beginFetch(b1.x, "chart", LQ45_JK, options, now)} :
           /\ inv' = [inv EXCEPT ![n] =
                         [@ EXCEPT !.pc = "indices", !.endDate = now,
                                   !.stockCalls = stockCalls, !.cache0 = cache,
                                   !.fi = [jkse |-> b1.f, lq45 |-> b2.f, alt |-> NoFetch],
                                   !.charted = b2.x.charted]]
           /\ cache' = b2.x.cache
           /\ provN' = b2.x.provN
    /\ UNCHANGED <<now, lastOp, lastSet, prov, ticks, symVars, retryVars, metricVars, dashVars>>

\* a provider call settles; on success the result is cached and chart() /
\* quote() returns, on failure withRetry starts its backoff timer
ProviderSettle(n, loc) ==
    LET I == inv[n]
        f == getF(I, loc)
    IN  /\ InFlight(f)
        /\ ScriptAt(prov[<<f.kind, f.mapped>>], f.nth) # NeverSettles
        /\ \E d \in {dalSettle(cache, f, ScriptAt(prov[<<f.kind, f.mapped>>], f.nth), now)} :
           \E I2 \in {putF(I, loc, d.f)} :
               /\ cache' = d.cache
               /\ lastSet' = IF Settled(d.f)
                             THEN MapPut(lastSet, f.key, [at |-> now, value |-> d.f.out.val,
                                                          ttl |-> ttlOf(f.kind)])
                             ELSE lastSet
               /\ inv' = [inv EXCEPT ![n] =
                             IF Settled(d.f) /\ f.kind = "chart"
                             THEN [I2 EXCEPT !.storedAt = MapPut(@, f.mapped, now)]
                             ELSE I2]
        /\ UNCHANGED <<now, lastOp, prov, provN, ticks, symVars, retryVars, metricVars, dashVars>>

AllFetches ==
    UNION {{getF(inv[n], loc) : loc \in Locs(n)} : n \in 1..MaxInv}

\* timers fire in the order in which they are due
EarliestTimer(f) ==
    \A g \in AllFetches : Sleeping(g) => f.r.wakeAt <= g.r.wakeAt

\* the next backoff timer is due and fires: the provider is called again, or
\* withRetry throws and with it chart() / quote()
TimerWake(n, loc) ==
    LET I  == inv[n]
        f  == getF(I, loc)
    IN  /\ Sleeping(f)
        /\ EarliestTimer(f)
        /\ now' = Max2(now, f.r.wakeAt)
        /\ LET f2 == dalWake(f)
               pk == <<f.kind, f.mapped>>
           IN  IF InFlight(f2)
               THEN /\ inv' = [inv EXCEPT ![n] = putF(I, loc, [f2 EXCEPT !.nth = provN[pk] + 1])]
                    /\ provN' = [provN EXCEPT ![pk] = @ + 1]
               ELSE /\ inv' = [inv EXCEPT ![n] = putF(I, loc, f2)]
                    /\ provN' = provN
        /\ UNCHANGED <<cache, lastOp, lastSet, prov, ticks, symVars, retryVars, metricVars, dashVars>>

\* fetchMarketIndices line 36 on: both index fetches have settled; with an
\* empty LQ45 series the first alternative is fetched, else the callbacks start
IndicesSettled(n) ==
    LET I == inv[n]
    IN  /\ I.pc = "indices"
        /\ Settled(I.fi.jkse) /\ Settled(I.fi.lq45)
        /\ LET jkseData == fetchHistoricalDataResult(I.fi.jkse.out)
               lq45Data == fetchHistoricalDataResult(I.fi.lq45.out)
               options  == periodOf(I.endDate, DefaultLookbackDays)
           IN  IF Len(lq45Data) = 0
               THEN \E b \in {beginFetch(Ctx(n), "chart", alternatives[1], options, now)} :
                        /\ inv' = [inv EXCEPT ![n] =
                                      [I EXCEPT !.pc = "alts", !.altIdx = 1,
                                                !.altIssued = <<alternatives[1]>>,
                                                !.fi.alt = b.f,
                                                !.marketIndices.jkse = jkseData,
                                                !.charted = b.x.charted]]
                        /\ cache' = b.x.cache
                        /\ provN' = b.x.provN
               ELSE \E e \in {enterCallbacks(I, Ctx(n), [jkse |-> jkseData, lq45 |-> lq45Data], now)} :
                        /\ inv' = [inv EXCEPT ![n] = e.I]
                        /\ cache' = e.x.cache
                        /\ provN' = e.x.provN
        /\ UNCHANGED <<now, lastOp, lastSet, prov, ticks, symVars, retryVars, metricVars, dashVars>>

\* a plausible slip: the loop lacks its break
altContinues_NoBreak(altData, altIdx) == altIdx < Len(alternatives)

\* lines 40-45: the loop goes on to the next alternative unless altData has
\* points (break) or the list is used up
altContinues(altData, altIdx) == Len(altData) = 0 /\ altIdx < Len(alternatives)

\* lines 40-46: an alternative LQ45 fetch has settled
AltSettled(n) ==
    LET I == inv[n]
    IN  /\ I.pc = "alts"
        /\ Settled(I.fi.alt)
        /\ LET altData == fetchHistoricalDataResult(I.fi.alt.out)
               options == periodOf(I.endDate, DefaultLookbackDays)
           IN  IF altContinues(altData, I.altIdx)
               THEN \E b \in {beginFetch(Ctx(n), "chart", alternatives[I.altIdx + 1], options, now)} :
                        /\ inv' = [inv EXCEPT ![n] =
                                      [I EXCEPT !.altIdx = @ + 1, !.fi.alt = b.f,
                                                !.altIssued = Append(@, alternatives[I.altIdx + 1]),
                                                !.altData = Append(@, altData),
                                                !.charted = b.x.charted]]
                        /\ cache' = b.x.cache
                        /\ provN' = b.x.provN
               ELSE \E e \in {enterCallbacks([I EXCEPT !.altData = Append(@, altData)], Ctx(n),
                                 [jkse |-> I.marketIndices.jkse, lq45 |-> altData], now)} :
                        /\ inv' = [inv EXCEPT ![n] = e.I]
                        /\ cache' = e.x.cache
                        /\ provN' = e.x.provN
        /\ UNCHANGED <<now, lastOp, lastSet, prov, ticks, symVars, retryVars, metricVars, dashVars>>

\* line 68 resumes: the history of call i is there, line 72 calls quote()
CallHistSettled(n, i) ==
    LET I == inv[n]
        t == I.ct[i]
    IN  /\ t.pc = "hist"
        /\ Settled(t.f)
        /\ \E b \in {beginFetch(Ctx(n), "quote", I.stockCalls[i].ticker, None, now)} :
               /\ inv' = [inv EXCEPT ![n] =
                             [I EXCEPT !.ct[i] = [t EXCEPT !.pc = "quote", !.f = b.f,
                                      !.historicalData = fetchHistoricalDataResult(t.f.out)]]]
               /\ cache' = b.x.cache
               /\ provN' = b.x.provN
        /\ UNCHANGED <<now, lastOp, lastSet, prov, ticks, symVars, retryVars, metricVars, dashVars>>

\* line 72 resumes (or its catch runs): lines 73-124 compute the result
CallQuoteSettled(n, i) ==
    LET I == inv[n]
        t == I.ct[i]
    IN  /\ t.pc = "quote"
        /\ Settled(t.f)
        /\ inv' = [inv EXCEPT ![n] =
                      [I EXCEPT !.ct[i] = [t EXCEPT !.pc = "done",
                               !.res = callResult(I.stockCalls[i], t.historicalData,
                                                  t.f.out, I.marketIndices)],
                                !.doneOrder = Append(@, i)]]
        /\ UNCHANGED <<now, cache, lastOp, lastSet, prov, provN, ticks, symVars, retryVars, metricVars, dashVars>>

\* a plausible slip: the results are collected as the callbacks complete
InvReturn_CompletionOrder(n) ==
    LET I == inv[n]
    IN  /\ I.pc = "calls"
        /\ \A i \in 1..Len(I.ct) : I.ct[i].pc = "done"
        /\ inv' = [inv EXCEPT ![n] =
                      [I EXCEPT !.pc = "done", !.doneAt = now,
                                !.out = [path |-> "return",
                                         snapshot |-> [stocks |-> [i \in 1..Len(I.ct) |-> I.ct[I.doneOrder[i]].res],
                                                       marketIndices |-> I.marketIndices]]]]
        /\ UNCHANGED <<now, cache, lastOp, lastSet, prov, provN, ticks, symVars, retryVars, metricVars, dashVars>>

\* line 128: Promise.all has fulfilled
InvReturn(n) ==
    LET I == inv[n]
    IN  /\ I.pc = "calls"
        /\ \A i \in 1..Len(I.ct) : I.ct[i].pc = "done"
        /\ inv' = [inv EXCEPT ![n] =
                      [I EXCEPT !.pc = "done", !.doneAt = now,
                                !.out = [path |-> "return",
                                         snapshot |-> [stocks |-> [i \in 1..Len(I.ct) |-> I.ct[i].res],
                                                       marketIndices |-> I.marketIndices]]]]
        /\ UNCHANGED <<now, cache, lastOp, lastSet, prov, provN, ticks, symVars, retryVars, metricVars, dashVars>>

TickSteps == {1, QuoteTtl, ChartTtl}

\* time passes
Tick(d) ==
    /\ ticks < MaxTicks
    /\ ticks' = ticks + 1
    /\ now' = now + d
    /\ UNCHANGED <<cache, lastOp, lastSet, inv, prov, provN, symVars, retryVars, metricVars, dashVars>>

\* --- metrics harness: one StockCall, every outcome of its two fetches ---
DateTicks  == 0..5                    \* provider dates: days 0..2, two instants a day
CallDates  == {1, 2}
Highs      == {1, 3}
Closes     == {1, 2}
QuotePrices == {0, 1, 4}              \* 0: no usable regularMarketPrice
EntryPrices == {-1, 0, 2}
StaticPrices == {0, 2}

ChartItems == [date : DateTicks, high : Highs, close : Closes]

RECURSIVE ChartSeries(_)
\* provider series of at most n items, ordered by date, no two at one instant
ChartSeries(n) ==
    IF n = 0 THEN {<<>>}
    ELSE LET shorter == ChartSeries(n - 1)
         IN  shorter \cup
             {Append(q, it) : q \in {x \in shorter : Len(x) = n - 1}, it \in ChartItems}

Ordered(q) == \A n \in 1..(Len(q) - 1) : q[n].date < q[n + 1].date
OrderedSeries(n) == {q \in ChartSeries(n) : Ordered(q)}

QuoteOutcomes ==
    {Err([error |-> "timeout"]), Ok(None)} \cup {Ok(Quote(p)) : p \in QuotePrices}

StockCalls ==
    [ticker : {<<"A">>}, entryPrice : EntryPrices, currentPrice : StaticPrices,
     callDate : CallDates]

\* index series as fetchMarketIndices delivers them (dates are days, closes
\* positive): none, all points before every call date, points on the call
\* dates, points around them
IndexSeries ==
    {<<>>,
     <<[date |-> 0, high |-> 1, close |-> 1]>>,
     <<[date |-> 1, high |-> 1, close |-> 1], [date |-> 2, high |-> 3, close |-> 2]>>,
     <<[date |-> 0, high |-> 3, close |-> 2], [date |-> 1, high |-> 1, close |-> 1],
       [date |-> 2, high |-> 3, close |-> 2]>>}

MetricsInit ==
    /\ mPc = "input"
    /\ mStock \in StockCalls
    /\ mIn = None
    /\ mRes = None

MetricsIdle ==
    /\ mPc = "off"
    /\ mStock = None
    /\ mIn = None
    /\ mRes = None

\* the callback of stockCalls.map, both awaits settled: the chart fetch gave
\* `series` through fetchHistoricalData, the quote fetch gave quoteOut
MCallback ==
    /\ mPc = "input"
    /\ \E series \in OrderedSeries(MaxPoints), quoteOut \in QuoteOutcomes,
          jk \in IndexSeries, lq \in IndexSeries :
          /\ mIn' = [series |-> series, quote |-> quoteOut,
                      marketIndices |-> [jkse |-> jk, lq45 |-> lq]]
          /\ mRes' = callResult(mStock, mapHistoricalData(series), quoteOut,
                                [jkse |-> jk, lq45 |-> lq])
    /\ mPc' = "done"
    /\ UNCHANGED mStock

\* the element that the catch handler builds for the call
MCatch ==
    /\ mPc = "input"
    /\ mIn' = None
    /\ mRes' = fallbackResult(mStock)
    /\ mPc' = "degraded"
    /\ UNCHANGED mStock

\* ------------------------------------------------------------------------
\* Dashboard (ClientDashboard)
\* The component's state (isLoading; stocks, which stands for stocks,
\* marketIndices and lastUpdated, set together, and holds the number of the
\* refresh whose data is shown, 0 for the initial props) and the calls of
\* refreshData made so far, each a record whose pc is the await it stands at
\* ("fetch", "json") or how it ended ("done", "failed").
\* ------------------------------------------------------------------------
\* response.ok, !response.ok (line 78 throws), fetch() rejects
FetchOutcomes == {"ok", "notOk", "rejected"}
\* response.json() fulfils or rejects
JsonOutcomes == {"parsed", "rejected"}

DashInit ==
    /\ mounted = FALSE
    /\ isLoading = FALSE
    /\ stocks = 0
    /\ refreshes = <<>>
    /\ fires = 0

\* lines 74-77: setIsLoading(true), then fetch() is awaited
refreshData(by) ==
    /\ isLoading' = TRUE
    /\ refreshes' = Append(refreshes, [pc |-> "fetch", by |-> by])

\* lines 53-55: the mount effect
Mount ==
    /\ ~mounted
    /\ mounted' = TRUE
    /\ refreshData("mount")
    /\ UNCHANGED <<stocks, fires>>

\* lines 59-68: the interval fires; refreshData is called on a weekday
\* between 9:00 and 16:00
IntervalFire(marketHours) ==
    /\ mounted
    /\ fires < MaxFires
    /\ fires' = fires + 1
    /\ IF marketHours
       THEN refreshData("interval")
       ELSE UNCHANGED <<isLoading, refreshes>>
    /\ UNCHANGED <<mounted, stocks>>

\* line 77 resumes: with response.ok line 80 awaits json(); else the catch
\* block and the finally block run
FetchSettled(k, outcome) ==
    /\ refreshes[k].pc = "fetch"
    /\ IF outcome = "ok"
       THEN /\ refreshes' = [refreshes EXCEPT ![k].pc = "json"]
            /\ UNCHANGED isLoading
       ELSE /\ refreshes' = [refreshes EXCEPT ![k].pc = "failed"]
            /\ isLoading' = FALSE
    /\ UNCHANGED <<mounted, stocks, fires>>

\* line 80 resumes: lines 81-83 set the data, or the catch block runs; the
\* finally block runs in both cases
JsonSettled(k, outcome) ==
    /\ refreshes[k].pc = "json"
    /\ IF outcome = "parsed"
       THEN /\ refreshes' = [refreshes EXCEPT ![k].pc = "done"]
            /\ stocks' = k
       ELSE /\ refreshes' = [refreshes EXCEPT ![k].pc = "failed"]
            /\ UNCHANGED stocks
    /\ isLoading' = FALSE
    /\ UNCHANGED <<mounted, fires>>

\* ------------------------------------------------------------------------
\* Specifications
\* ------------------------------------------------------------------------
CacheIdle ==
    /\ now = 0
    /\ cache = EmptyMap
    /\ lastOp = NoOp
    /\ lastSet = EmptyMap

RetryOff ==
    /\ rt = RetryIdle
    /\ script = <<>>

\* the normaliser applied once and twice to every input ticker
InitSym == SymInit /\ DashInit /\ CacheIdle /\ RetryOff /\ MetricsIdle /\ SnapIdle
NextSym ==
    \/ Normalize /\ UNCHANGED <<cacheVars, retryVars, metricVars, snapVars, dashVars>>
    \/ Renormalize /\ UNCHANGED <<cacheVars, retryVars, metricVars, snapVars, dashVars>>
SpecSym == InitSym /\ [][NextSym]_vars

\* the cache under arbitrary get / set calls
InitCache == SymIdle /\ DashInit /\ CacheInit /\ RetryOff /\ MetricsIdle /\ SnapIdle
NextCache ==
    \/ \E k \in HKeys : HGet(k) /\ UNCHANGED <<symVars, retryVars, metricVars, snapVars, dashVars>>
    \/ \E k \in HKeys, v \in HValues, ttl \in 0..MaxTtl :
           HSet(k, v, ttl) /\ UNCHANGED <<symVars, retryVars, metricVars, snapVars, dashVars>>
    \/ HTick /\ UNCHANGED <<symVars, retryVars, metricVars, snapVars, dashVars>>
SpecCache == InitCache /\ [][NextCache]_vars

\* one run of withRetry against every scripted operation
InitRetry == SymIdle /\ DashInit /\ CacheIdle /\ RetryInit /\ MetricsIdle /\ SnapIdle
NextRetry ==
    \/ RSettle /\ UNCHANGED <<symVars, cache, lastOp, lastSet, metricVars, snapVars, dashVars>>
    \/ RTimerElapse /\ UNCHANGED <<symVars, cache, lastOp, lastSet, metricVars, snapVars, dashVars>>
    \/ RWake /\ UNCHANGED <<symVars, cache, lastOp, lastSet, metricVars, snapVars, dashVars>>
SpecRetry == InitRetry /\ [][NextRetry]_vars

\* one StockCall through the map callback or the catch handler
InitMetrics == SymIdle /\ DashInit /\ CacheIdle /\ RetryOff /\ MetricsInit /\ SnapIdle
NextMetrics ==
    \/ MCallback /\ UNCHANGED <<symVars, cacheVars, retryVars, snapVars, dashVars>>
    \/ MCatch /\ UNCHANGED <<symVars, cacheVars, retryVars, snapVars, dashVars>>
SpecMetrics == InitMetrics /\ [][NextMetrics]_vars

\* what every snapshot specification does once an invocation has started
SnapSteps ==
    \/ \E n \in 1..MaxInv : \E loc \in Locs(n) : ProviderSettle(n, loc)
    \/ \E n \in 1..MaxInv : \E loc \in Locs(n) : TimerWake(n, loc)
    \/ \E n \in 1..MaxInv : IndicesSettled(n)
    \/ \E n \in 1..MaxInv : AltSettled(n)
    \/ \E n \in 1..MaxInv : \E i \in 1..Len(inv[n].ct) : CallHistSettled(n, i)
    \/ \E n \in 1..MaxInv : \E i \in 1..Len(inv[n].ct) : CallQuoteSettled(n, i)
    \/ \E n \in 1..MaxInv : InvReturn(n)

\* one invocation of fetchStocksWithMarketData against every provider
\* assignment; the provider answers at once, so that the clock moves only
\* when a backoff timer is due; during a full outage the default list of
\* three calls is not passed
ListsUnder(p) == IF p = Outage THEN {l \in CallLists : Len(l) <= 2} ELSE CallLists
InitSnap == SymIdle /\ DashInit /\ CacheIdle /\ RetryOff /\ MetricsIdle /\ SnapInit(ProviderAssignments)
NextSnap ==
    \/ \E stockCalls \in ListsUnder(prov) : InvStart(1, stockCalls)
    \/ SnapSteps
SpecSnap == InitSnap /\ [][NextSnap]_vars

\* the same, with every pending provider call, timer and continuation
\* eventually taking its step
SpecSnapLive == SpecSnap /\ WF_vars(SnapSteps)

\* one invocation that finds the cache as an earlier one has left it: empty,
\* or with the quote of TEBE.JK stored at time 0 or just now
SeedTime == QuoteTtl
SeedQuote == Quote(1000)
SeedCaches ==
    {EmptyMap} \cup {setCacheMap(EmptyMap, quoteKey(TEBE_JK), SeedQuote, QuoteTtl, t) :
                         t \in {0, SeedTime}}
SeedAssignments ==
    { Healthy,
      [Healthy EXCEPT ![<<"chart", CARET_JKSE>>] = <<Err(Timeout), Ok(SomeChart)>>],
      [Healthy EXCEPT ![<<"chart", CARET_JKSE>>] = <<Err(Timeout)>>],
      [Healthy EXCEPT ![<<"chart", CARET_JKLQ45>>] = <<Ok(EmptyChart)>>],
      [Healthy EXCEPT ![<<"chart", TEBE_JK>>] = <<Err(Timeout)>>],
      [Healthy EXCEPT ![<<"quote", ANJT_JK>>] = <<Ok(Quote(0))>>] }
InitSeed ==
    /\ SymIdle /\ DashInit /\ RetryOff /\ MetricsIdle /\ SnapInit(SeedAssignments)
    /\ now = SeedTime
    /\ cache \in SeedCaches
    /\ lastOp = NoOp
    /\ lastSet = [k \in DOMAIN cache |->
                     [at |-> cache[k].expires - QuoteTtl, value |-> cache[k].value,
                      ttl |-> QuoteTtl]]
NextSeed ==
    \/ InvStart(1, dummyStockCalls)
    \/ SnapSteps
SpecSeed == InitSeed /\ [][NextSeed]_vars

\* one invocation against a provider one of whose symbols has a call that
\* never settles, at once or on the attempt after a failure
HangAssignments ==
    UNION {{[a EXCEPT ![k] = sc] : sc \in {<<NeverSettles>>, <<Err(Timeout), NeverSettles>>}}
           : a \in {Healthy, LateLQ45}, k \in ProvKeys}
InitHang == SymIdle /\ DashInit /\ CacheIdle /\ RetryOff /\ MetricsIdle /\ SnapInit(HangAssignments)
NextHang ==
    \/ InvStart(1, dummyStockCalls)
    \/ SnapSteps
SpecHang == InitHang /\ [][NextHang]_vars

\* the dashboard from its first render on: the mount effect, the interval
\* and the refreshes they start
InitDash ==
    /\ SymIdle /\ CacheIdle /\ RetryOff /\ MetricsIdle /\ SnapIdle
    /\ DashInit
NextDash ==
    \/ Mount /\ UNCHANGED <<symVars, cacheVars, retryVars, metricVars, snapVars>>
    \/ \E marketHours \in BOOLEAN :
           IntervalFire(marketHours) /\ UNCHANGED <<symVars, cacheVars, retryVars, metricVars, snapVars>>
    \/ \E k \in 1..Len(refreshes), outcome \in FetchOutcomes :
           FetchSettled(k, outcome) /\ UNCHANGED <<symVars, cacheVars, retryVars, metricVars, snapVars>>
    \/ \E k \in 1..Len(refreshes), outcome \in JsonOutcomes :
           JsonSettled(k, outcome) /\ UNCHANGED <<symVars, cacheVars, retryVars, metricVars, snapVars>>
SpecDash == InitDash /\ [][NextDash]_vars

\* repeated invocations, each started after the one before has returned,
\* while time passes
\* two Calls on one symbol, spelled with and without the suffix
TwinCalls ==
    << [id |-> 7, ticker |-> TEBE, entryPrice |-> 800, currentPrice |-> 2200,
        callDate |-> Day_2025_05_01],
       dummyStockCalls[2] >>
\* the successive calls on the symbol of the twins answer differently
TwinAnswers ==
    [Healthy EXCEPT ![<<"chart", TEBE_JK>>] = <<Err(Timeout), Ok(SomeChart), Ok(EmptyChart)>>,
                    ![<<"quote", TEBE_JK>>] = <<Ok(Quote(2200)), Ok(Quote(1000))>>]
\* one invocation for the twins, with and without the LQ45 fallback
TwinAssignments ==
    {TwinAnswers, [TwinAnswers EXCEPT ![<<"chart", CARET_JKLQ45>>] = <<Ok(EmptyChart)>>]}
InitTwin == SymIdle /\ DashInit /\ CacheIdle /\ RetryOff /\ MetricsIdle /\ SnapInit(TwinAssignments)
NextTwin ==
    \/ InvStart(1, TwinCalls)
    \/ SnapSteps
SpecTwin == InitTwin /\ [][NextTwin]_vars

RepeatAssignments ==
    { Healthy,
      [Healthy EXCEPT ![<<"chart", CARET_JKLQ45>>] = <<Ok(EmptyChart)>>],
      [Healthy EXCEPT ![<<"chart", CARET_JKLQ45>>] = <<Ok(EmptyChart)>>,
                      ![<<"chart", CARET_LQ45>>] = <<Err(Timeout)>>],
      [Healthy EXCEPT ![<<"chart", TEBE_JK>>] = <<Err(Timeout), Ok(SomeChart)>>] }
RepeatLists == {l \in CallLists : Len(l) = 1}
InitRepeat == SymIdle /\ DashInit /\ CacheIdle /\ RetryOff /\ MetricsIdle /\ SnapInit(RepeatAssignments)
NextRepeat ==
    \/ \E n \in 1..MaxInv, stockCalls \in RepeatLists :
           /\ \A m \in 1..(n - 1) : inv[m].pc = "done"
           /\ InvStart(n, stockCalls)
    \/ SnapSteps
    \/ \E d \in TickSteps : Tick(d)
SpecRepeat == InitRepeat /\ [][NextRepeat]_vars

\* ------------------------------------------------------------------------
\* Claims
\* ------------------------------------------------------------------------
RetrySettled == rt.pc \in {"returned", "threw"}
FailsThriceThenSucceeds ==
    /\ \A n \in 1..3 : ~script[n].ok
    /\ script[4].ok

\* C1 (as stated): withRetry, given an operation that fails on its first 3
\* invocations and succeeds on its 4th, invokes it exactly 4 times and
\* returns the value of the 4th invocation.
C1_FourthAttemptReturned ==
    (RetrySettled /\ FailsThriceThenSucceeds)
        => /\ rt.calls = 4
           /\ rt.pc = "returned"
           /\ rt.value = script[4].val

\* C2: when every attempt made fails, withRetry throws the error of the last
\* attempt and returns no value.
C2_LastErrorPropagated ==
    (RetrySettled /\ \A n \in 1..rt.calls : ~script[n].ok)
        => /\ rt.pc = "threw"
           /\ rt.thrown = script[rt.calls].err
           /\ rt.value = None

\* C2 witness: all attempts failed, the first and the last with different errors
C2_Witness ==
    /\ rt.pc = "threw"
    /\ rt.calls = Len(delays)
    /\ script[1].err # script[rt.calls].err
    /\ rt.thrown = script[rt.calls].err

LastSetOf(k) == lastSet[k]
GetAfterSet == lastOp.op = "get" /\ MapHas(lastSet, lastOp.key)

\* C3 (as stated): for a positive ttl, a get at the instant of the set returns
\* v, and a get at any instant t with t - (time of set) >= ttl is a miss.
C3_MissAtExactTtl ==
    (GetAfterSet /\ LastSetOf(lastOp.key).ttl > 0) =>
        LET s == LastSetOf(lastOp.key) IN
        /\ lastOp.at = s.at => lastOp.result = s.value
        /\ lastOp.at - s.at >= s.ttl => lastOp.result = None

\* C3 (amended): a get at any instant t with t - (time of set) <= ttl returns
\* v (in particular at the instant of the set and at the instant at which
\* exactly ttl has passed); a get with t - (time of set) > ttl is a miss.
C3_RoundTrip ==
    GetAfterSet =>
        LET s == LastSetOf(lastOp.key) IN
        /\ lastOp.at - s.at <= s.ttl => lastOp.result = s.value
        /\ lastOp.at - s.at >  s.ttl => lastOp.result = None

\* C3 witness: a get issued exactly ttl after the set, which still hits
C3_Witness ==
    /\ GetAfterSet
    /\ LastSetOf(lastOp.key).ttl > 0
    /\ lastOp.at = LastSetOf(lastOp.key).at + LastSetOf(lastOp.key).ttl
    /\ lastOp.result = LastSetOf(lastOp.key).value

OtherKeysUntouched(k) ==
    \A j \in HKeys \ {k} :
        /\ MapHas(cache, j) <=> MapHas(lastOp.before, j)
        /\ MapHas(cache, j) => cache[j] = lastOp.before[j]

\* C4: getCache on an entry with now > expires reports a miss and removes the
\* entry; on an entry with now <= expires it returns the value and leaves the
\* cache unchanged; entries of other keys are never changed.
C4_LazyExpiration ==
    lastOp.op = "get" =>
        LET b == lastOp.before
            k == lastOp.key IN
        /\ (MapHas(b, k) /\ lastOp.at > b[k].expires)
               => (lastOp.result = None /\ ~MapHas(cache, k))
        /\ (MapHas(b, k) /\ lastOp.at <= b[k].expires)
               => (lastOp.result = b[k].value /\ cache = b)
        /\ OtherKeysUntouched(k)

\* C4 witness: a get that evicted an expired entry while another key is cached
C4_Witness ==
    /\ lastOp.op = "get"
    /\ MapHas(lastOp.before, lastOp.key)
    /\ lastOp.at > lastOp.before[lastOp.key].expires
    /\ \E j \in HKeys \ {lastOp.key} : MapHas(cache, j)

\* C5: setCache(k, v, ttl) at time t leaves the entry of k equal to
\* (v, t + ttl) whatever k held before, and leaves all other keys unchanged.
C5_SetOverwrites ==
    lastOp.op = "set" =>
        /\ MapHas(cache, lastOp.key)
        /\ cache[lastOp.key] = [value |-> lastOp.value, expires |-> lastOp.at + lastOp.ttl]
        /\ OtherKeysUntouched(lastOp.key)

\* C5 witness: a set that replaced an entry which would have expired later
C5_Witness ==
    /\ lastOp.op = "set"
    /\ MapHas(lastOp.before, lastOp.key)
    /\ lastOp.before[lastOp.key].expires > lastOp.at + lastOp.ttl
    /\ lastOp.before[lastOp.key].value # lastOp.value
    /\ \E j \in HKeys \ {lastOp.key} : MapHas(cache, j)

Started(n) == inv[n].pc # "idle"

\* C6 (as stated): once an invocation has fetched and stored the series of a
\* symbol, an invocation that starts later and within the chart TTL makes no
\* provider chart call for that symbol.
C6_LaterSnapshotUsesCache ==
    \A a \in 1..MaxInv, b \in 1..MaxInv :
        \A y \in DOMAIN inv[a].storedAt :
            (/\ Started(b)
             /\ inv[b].endDate > inv[a].storedAt[y]
             /\ inv[b].endDate - inv[a].storedAt[y] < ChartTtl)
                => y \notin inv[b].charted

SettledCharts == {f \in AllFetches : Settled(f) /\ f.kind = "chart" /\ ~f.hit}
AllAttemptsFailed(f) == \A k \in 1..Len(f.log) : ~f.log[k].ok
FetchedEmpty(f) == f.log[Len(f.log)] = Ok(EmptyChart)

\* C7: when all retry attempts of a series fetch fail, chart() throws into
\* fetchHistoricalData (its catch branch runs, with the last error), whereas a
\* fetch that succeeded with an empty series returns it (the try branch
\* runs); a failure is never delivered as an empty series.
C7_FailureIsNotEmptySeries ==
    \A f \in SettledCharts :
        /\ AllAttemptsFailed(f)
               => /\ f.out = Err(f.log[Len(f.log)].err)
                  /\ fetchHistoricalDataBranch(f.out) = "catch"
        /\ FetchedEmpty(f)
               => /\ f.out = Ok(EmptyChart)
                  /\ fetchHistoricalDataBranch(f.out) = "return"

\* C7 witness: a series fetch has used up its attempts and has thrown
C7_Witness ==
    \E f \in SettledCharts :
        /\ AllAttemptsFailed(f)
        /\ Len(f.log) = Len(delays)
        /\ ~f.out.ok

\* C8: mapIndonesianSymbol(mapIndonesianSymbol(x)) = mapIndonesianSymbol(x)
C8_Idempotent == symPc = "remapped" => symOut2 = symOut

\* C8 witness: a bare ticker that was suffixed by the first application
C8_Witness ==
    /\ symPc = "remapped"
    /\ symOut = symIn \o DOT_JK
    /\ symOut2 = symOut

\* the rule list of the claim, first match wins
NormalizeRules(t) ==
    CASE t \in {LQ45, LQ45_JK, IDX_LQ45}          -> CARET_JKLQ45
      [] t \notin {LQ45, LQ45_JK, IDX_LQ45} /\ t = JKSE -> CARET_JKSE
      [] t \notin {LQ45, LQ45_JK, IDX_LQ45, JKSE}
           /\ (StartsWith(t, "^") \/ Includes(t, ".")) -> t
      [] OTHER                                    -> t \o DOT_JK

IsTickerString(s) == s \in Seq({"^", ".", ":", "A", "L", "Q", "4", "5", "J", "K",
                                "S", "E", "I", "D", "X", "N", "T"})

\* C9: mapIndonesianSymbol is total and equals the first matching rule; an
\* LQ45 alias containing a delimiter is still rewritten, and no ticker
\* containing '.' is ever suffixed.
C9_RuleTable ==
    symPc \in {"mapped", "remapped"} =>
        /\ IsTickerString(symOut)
        /\ symOut = NormalizeRules(symIn)
        /\ symIn \in {LQ45_JK, IDX_LQ45} => symOut = CARET_JKLQ45
        /\ Includes(symIn, ".") => symOut # symIn \o DOT_JK

\* C9 witness: a ticker with '^' inside (not in front) and no '.', suffixed
C9_Witness ==
    /\ symPc = "mapped"
    /\ Includes(symIn, "^") /\ ~StartsWith(symIn, "^") /\ ~Includes(symIn, ".")
    /\ symOut = symIn \o DOT_JK

\* C10: every result of a Call with entryPrice > 0, from the callback or from
\* the catch handler, has maxGain >= currentGain.
C10_MaxGainAtLeastCurrent ==
    (mPc \in {"done", "degraded"} /\ mStock.entryPrice > 0)
        => NumGE(mRes.maxGain, mRes.currentGain)

\* C10 witness: the current price lies above every high since the call date
C10_Witness ==
    /\ mPc = "done"
    /\ mStock.entryPrice > 0
    /\ Len(SinceCall(mRes.historicalData, mStock.callDate)) > 0
    /\ mRes.currentPrice > MaxHigh(SinceCall(mRes.historicalData, mStock.callDate))
    /\ NumEQ(mRes.maxGain, mRes.currentGain)

\* ------------------------------------------------------------------------
\* C11..C14: the metrics of one Call
\* ------------------------------------------------------------------------
MetricsDone == mPc \in {"done", "degraded"}
OnOrAfter(series, callDate) == {n \in 1..Len(series) : series[n].date >= callDate}

\* C11: when no point of the historical series is dated on or after the call
\* date (the series is empty or lies before it), maxGain is currentGain and
\* daysToMax is null; a point dated on the call date counts as since the
\* call, so that with such a point daysToMax is a number.
C11_NoDataSinceCall ==
    MetricsDone =>
        /\ OnOrAfter(mRes.historicalData, mStock.callDate) = {}
               => mRes.maxGain = mRes.currentGain /\ mRes.daysToMax = Null
        /\ (\E n \in 1..Len(mRes.historicalData) :
                 mRes.historicalData[n].date = mStock.callDate)
               => mRes.daysToMax # Null

\* C11 witness: a series that is not empty and lies before the call date
C11_Witness ==
    /\ mPc = "done"
    /\ Len(mRes.historicalData) > 0
    /\ OnOrAfter(mRes.historicalData, mStock.callDate) = {}
    /\ mRes.daysToMax = Null

\* C12 (as stated): when the resolved current price exceeds every high since
\* the call date, daysToMax is null or zero, never the day count of a
\* historical point.
C12_DaysToMaxAbsentAboveHistory ==
    (/\ mPc = "done"
     /\ \A n \in OnOrAfter(mRes.historicalData, mStock.callDate) :
            mRes.currentPrice > mRes.historicalData[n].high)
        => mRes.daysToMax \in {Null, Num(0)}

\* the index return of the rule: 0 without a point on or after the call
\* date, else measured from the first such point to the last point
RuleIndexReturn(series, callDate) ==
    LET since == OnOrAfter(series, callDate)
    IN  IF since = {} THEN Zero
        ELSE LET s == CHOOSE n \in since : \A m \in since : n <= m
             IN  Pct(series[Len(series)].close, series[s].close)

\* C13: the index returns of a result follow that rule for both index
\* series, and are 0 when the first point on or after the call date is the
\* last point of the series.
C13_IndexReturn ==
    mPc = "done" =>
        /\ mRes.jkseReturn = RuleIndexReturn(mIn.marketIndices.jkse, mStock.callDate)
        /\ mRes.lq45Return = RuleIndexReturn(mIn.marketIndices.lq45, mStock.callDate)
        /\ OnOrAfter(mIn.marketIndices.jkse, mStock.callDate) = {Len(mIn.marketIndices.jkse)}
               => NumEQ(mRes.jkseReturn, Zero)

\* C13 witness: the return is measured from a point that is neither the
\* first nor the last of the series
C13_Witness ==
    /\ mPc = "done"
    /\ Len(mIn.marketIndices.jkse) = 3
    /\ OnOrAfter(mIn.marketIndices.jkse, mStock.callDate) = {2, 3}
    /\ ~NumEQ(mRes.jkseReturn, Zero)

UsableQuote(quoteOut) ==
    quoteOut.ok /\ quoteOut.val # None /\ quoteOut.val.regularMarketPrice # 0

\* C14: the current price is the quote's price when the quote fetch gave a
\* usable one, else the close of the last historical point when there is
\* one, else the static price of the Call; a failed quote fetch and a quote
\* without usable price are treated alike.
C14_PriceFallback ==
    mPc = "done" =>
        mRes.currentPrice =
            IF UsableQuote(mIn.quote) THEN mIn.quote.val.regularMarketPrice
            ELSE IF Len(mRes.historicalData) > 0
                 THEN mRes.historicalData[Len(mRes.historicalData)].close
                 ELSE mStock.currentPrice

\* C14 witness: the quote fetch failed and the last close differs from the
\* static price
C14_Witness ==
    /\ mPc = "done"
    /\ ~mIn.quote.ok
    /\ Len(mRes.historicalData) > 0
    /\ mRes.currentPrice = mRes.historicalData[Len(mRes.historicalData)].close
    /\ mRes.currentPrice # mStock.currentPrice

\* ------------------------------------------------------------------------
\* C15..C20: snapshots
\* ------------------------------------------------------------------------
Returned(n) == inv[n].pc = "done"
AllCalls(stockCalls) == \A i \in 1..Len(stockCalls) : stockCalls[i] # None
NoIndices == [jkse |-> <<>>, lq45 |-> <<>>]
\* a result built from the static fields of Call c alone
StaticResult(r, c) ==
    /\ r.stock = c
    /\ r.historicalData = <<>>
    /\ r.currentGain = Pct(c.currentPrice, c.entryPrice)
    /\ r.maxGain = r.currentGain
    /\ r.daysToMax = Null
    /\ r.jkseReturn = Zero
    /\ r.lq45Return = Zero

\* C15: when every provider call fails and the cache starts empty, the
\* snapshot of a list of Calls has one result per Call, built from the
\* Call's static price, with empty history, maxGain = currentGain, daysToMax
\* null and index returns 0, and both index series are empty.
C15_OutageSnapshot ==
    \A n \in 1..MaxInv :
        (prov = Outage /\ Returned(n) /\ AllCalls(inv[n].stockCalls))
            => /\ Len(inv[n].out.snapshot.stocks) = Len(inv[n].stockCalls)
               /\ \A i \in 1..Len(inv[n].stockCalls) :
                      StaticResult(inv[n].out.snapshot.stocks[i], inv[n].stockCalls[i])
               /\ inv[n].out.snapshot.marketIndices = NoIndices

\* C15 witness: the snapshot of two Calls after a full outage, every chart
\* fetch having used up its attempts
C15_Witness ==
    /\ prov = Outage
    /\ Returned(1)
    /\ Len(inv[1].stockCalls) = 2 /\ AllCalls(inv[1].stockCalls)
    /\ inv[1].out.path = "return"
    /\ provN[<<"chart", CARET_JKSE>>] = Len(delays)

Resolved(n) == Returned(n) /\ inv[n].out # None
Unresolved == \E n \in 1..MaxInv : Started(n) /\ ~Resolved(n)

\* C16: an invocation that has started eventually resolves with a snapshot,
\* whatever the provider calls answer; it is never rejected (a rejected
\* invocation would stay unresolved for ever).
C16_AlwaysResolves == Unresolved ~> ~Unresolved

\* C16 witness: the invocation has resolved through the catch handler
C16_Witness ==
    /\ Returned(1)
    /\ inv[1].out.path = "catch"
    /\ inv[1].out.snapshot.marketIndices = NoIndices

\* C17 (as stated): the snapshot of the top-level catch handler has one
\* result per Call of the list that was passed, in the same order, each
\* built from that Call's static fields.
C17_DegradedPerPassedCall ==
    \A n \in 1..MaxInv :
        (Returned(n) /\ inv[n].out.path = "catch")
            => /\ Len(inv[n].out.snapshot.stocks) = Len(inv[n].stockCalls)
               /\ \A i \in 1..Len(inv[n].stockCalls) :
                      inv[n].stockCalls[i] # None
                          => StaticResult(inv[n].out.snapshot.stocks[i], inv[n].stockCalls[i])

\* C18: a snapshot of the normal path has one result per input Call and
\* result i carries the id and the static fields of input Call i, in
\* whatever order the callbacks have completed.
C18_InputOrderKept ==
    \A n \in 1..MaxInv :
        (Returned(n) /\ inv[n].out.path = "return")
            => /\ Len(inv[n].out.snapshot.stocks) = Len(inv[n].stockCalls)
               /\ \A i \in 1..Len(inv[n].stockCalls) :
                      /\ inv[n].out.snapshot.stocks[i].stock.id = inv[n].stockCalls[i].id
                      /\ inv[n].out.snapshot.stocks[i].stock.ticker = inv[n].stockCalls[i].ticker
                      /\ inv[n].out.snapshot.stocks[i].stock.entryPrice = inv[n].stockCalls[i].entryPrice
                      /\ inv[n].out.snapshot.stocks[i].stock.callDate = inv[n].stockCalls[i].callDate

\* C18 witness: the callbacks of three Calls have completed last to first
C18_Witness ==
    /\ Returned(1)
    /\ inv[1].out.path = "return"
    /\ inv[1].doneOrder = <<3, 2, 1>>

\* what a fetch gets from the provider when its first attempt is call `from`
\* on a symbol whose calls answer as in sc: the first answer among the
\* attempts, else the error of the last attempt
AttemptsFrom(from) == from..(from + Len(delays) - 1)
RetryOutcome(sc, from) ==
    IF \E k \in AttemptsFrom(from) : ScriptAt(sc, k).ok
    THEN ScriptAt(sc, CHOOSE k \in AttemptsFrom(from) :
                          /\ ScriptAt(sc, k).ok
                          /\ \A j \in AttemptsFrom(from) : j < k => ~ScriptAt(sc, j).ok)
    ELSE ScriptAt(sc, from + Len(delays) - 1)
SeriesOf(outcome) == IF outcome.ok THEN mapHistoricalData(outcome.val.quotes) ELSE <<>>

\* what chart() / quote() gives an invocation I for a symbol that I fetches
\* once: the entry that the cache held for the key when I started, if it was
\* live then, else the outcome of the provider's answers for the symbol
StartOutcome(I, p, kind, mapped) ==
    LET cached == getCacheValue(I.cache0,
                                dalKey(kind, mapped, periodOf(I.endDate, DefaultLookbackDays)),
                                I.endDate)
    IN  IF cached # None THEN Ok(cached) ELSE RetryOutcome(p[<<kind, mapped>>], 1)

\* the result of a Call as a function of the cache at the start and of the
\* provider's answers for the Call's own symbol
OwnResult(I, p, stock) ==
    callResult(stock,
               SeriesOf(StartOutcome(I, p, "chart", mapIndonesianSymbol(stock.ticker))),
               StartOutcome(I, p, "quote", mapIndonesianSymbol(stock.ticker)),
               NoIndices)
\* the JKSE series as a function of the provider's answers for ^JKSE
OwnJkse(I, p) == SeriesOf(StartOutcome(I, p, "chart", CARET_JKSE))
\* the LQ45 series as a function of the provider's answers for the LQ45
\* symbols: LQ45.JK, then ^LQ45, then IDX:LQ45 and LQ45.JK again, both of
\* which are ^JKLQ45 to the provider and are served from the cache once
\* an answer for it is stored
OwnLq45(I, p) ==
    LET first  == StartOutcome(I, p, "chart", CARET_JKLQ45)
        caret  == SeriesOf(StartOutcome(I, p, "chart", CARET_LQ45))
        second == RetryOutcome(p[<<"chart", CARET_JKLQ45>>], 1 + Len(delays))
        third  == RetryOutcome(p[<<"chart", CARET_JKLQ45>>], 1 + 2 * Len(delays))
    IN  IF Len(SeriesOf(first)) > 0 THEN SeriesOf(first)
        ELSE IF Len(caret) > 0 THEN caret
        ELSE IF first.ok THEN <<>>
        ELSE IF Len(SeriesOf(second)) > 0 THEN SeriesOf(second)
        ELSE IF second.ok THEN <<>>
        ELSE SeriesOf(third)

\* the results of invocation n depend on nothing but the cache at its start
\* and, for each Call and each index, the provider's answers for its own
\* symbols; a failed JKSE fetch leaves JKSE empty and LQ45 as fetched
Isolated(n) ==
    /\ \A i \in 1..Len(inv[n].stockCalls) :
           LET r == inv[n].out.snapshot.stocks[i]
               o == OwnResult(inv[n], prov, inv[n].stockCalls[i])
           IN  /\ r.currentPrice = o.currentPrice
               /\ r.currentGain = o.currentGain
               /\ r.maxGain = o.maxGain
               /\ r.daysToMax = o.daysToMax
               /\ r.historicalData = o.historicalData
    /\ inv[n].out.snapshot.marketIndices.jkse = OwnJkse(inv[n], prov)
    /\ inv[n].out.snapshot.marketIndices.lq45 = OwnLq45(inv[n], prov)
    /\ ~RetryOutcome(prov[<<"chart", CARET_JKSE>>], 1).ok
           => inv[n].out.snapshot.marketIndices.jkse = <<>>

\* no entry that was live when invocation n started has expired before n
\* returned
NoExpiryDuring(n) ==
    \A k \in DOMAIN inv[n].cache0 :
        inv[n].endDate <= inv[n].cache0[k].expires
            => inv[n].doneAt <= inv[n].cache0[k].expires

\* C19 (as stated): partial failures are isolated.  From one cache state,
\* the price, gains, daysToMax and history of every Call and each index
\* series are the same in all runs that agree on the provider's answers for
\* the symbol of that Call or index: they are a function of the cache at
\* the start and of those answers.
C19_FailuresIsolated ==
    \A n \in 1..MaxInv :
        (Returned(n) /\ inv[n].out.path = "return") => Isolated(n)

\* C19 (amended): the same, for runs during which no cache entry that was
\* live at the start expires.
C19_IsolatedWithoutExpiry ==
    \A n \in 1..MaxInv :
        (Returned(n) /\ inv[n].out.path = "return" /\ NoExpiryDuring(n)) => Isolated(n)

\* C19 witness: the cache held a live quote at the start and the series
\* fetch of one of three Calls has failed; that Call has no history, the
\* two others and both indices have theirs
C19_Witness ==
    /\ Returned(1)
    /\ inv[1].out.path = "return"
    /\ inv[1].cache0 # EmptyMap /\ NoExpiryDuring(1)
    /\ prov = [Healthy EXCEPT ![<<"chart", TEBE_JK>>] = <<Err(Timeout)>>]
    /\ inv[1].out.snapshot.stocks[2].historicalData = <<>>
    /\ inv[1].out.snapshot.stocks[2].currentPrice = SeedQuote.regularMarketPrice
    /\ Len(inv[1].out.snapshot.stocks[1].historicalData) > 0
    /\ Len(inv[1].out.snapshot.stocks[3].historicalData) > 0
    /\ Len(inv[1].out.snapshot.marketIndices.jkse) > 0
    /\ Len(inv[1].out.snapshot.marketIndices.lq45) > 0

SeriesPending(t) == t.pc = "hist" /\ ~Settled(t.f)
QuoteIssued(t) == t.pc \in {"quote", "done"}

\* C20 (as stated): the series fetch and the quote fetch of a Call are
\* issued together, so that while the series fetch is pending the quote
\* fetch has been issued.
C20_QuoteIssuedWithSeries ==
    \A n \in 1..MaxInv : \A i \in 1..Len(inv[n].ct) :
        SeriesPending(inv[n].ct[i]) => QuoteIssued(inv[n].ct[i])

\* ------------------------------------------------------------------------
\* C21..C30
\* ------------------------------------------------------------------------
\* C21 (as stated): a Call whose entryPrice is zero or negative is rejected
\* before any metric is computed; no result, of the callback or of the catch
\* handler, carries gains obtained by dividing by a non-positive entry price.
C21_NonPositiveEntryRejected ==
    MetricsDone => mStock.entryPrice > 0

IndicesReturned(n) == inv[n].pc \in {"calls", "done"}
IsPrefix(s, t) == Len(s) <= Len(t) /\ s = SubSeq(t, 1, Len(s))
InitialLq45(n) == fetchHistoricalDataResult(inv[n].fi.lq45.out)

\* C22: the alternative LQ45 spellings are fetched only when the initial LQ45
\* result is empty, one at a time in the order '^LQ45', 'IDX:LQ45', 'LQ45.JK';
\* an alternative is fetched only after all those before it came back empty,
\* none is fetched after one with points; fetchMarketIndices returns the
\* initial series when it has points, else the alternative with points, else
\* an empty series; the JKSE series is that of the one '^JKSE' fetch.
C22_AlternativesInOrder ==
    \A n \in 1..MaxInv :
        LET I == inv[n] IN
        /\ IsPrefix(I.altIssued, <<CARET_LQ45, IDX_LQ45, LQ45_JK>>)
        /\ I.altIssued # <<>> => (Settled(I.fi.lq45) /\ InitialLq45(n) = <<>>)
        /\ \A k \in 1..Len(I.altData) : k < Len(I.altIssued) => I.altData[k] = <<>>
        /\ IndicesReturned(n) =>
               /\ Len(I.altData) = Len(I.altIssued)
               /\ InitialLq45(n) # <<>> => (I.altIssued = <<>> /\ I.marketIndices.lq45 = InitialLq45(n))
               /\ InitialLq45(n) = <<>> =>
                      /\ I.altIssued # <<>>
                      /\ I.marketIndices.lq45 = I.altData[Len(I.altData)]
                      /\ I.marketIndices.lq45 = <<>> => Len(I.altIssued) = 3
               /\ I.marketIndices.jkse = fetchHistoricalDataResult(I.fi.jkse.out)

\* C22 witness: the initial fetch failed, '^LQ45' came back empty and the
\* second alternative delivered the series; the third was not fetched
C22_Witness ==
    /\ IndicesReturned(1)
    /\ ~inv[1].fi.lq45.out.ok
    /\ inv[1].altIssued = <<CARET_LQ45, IDX_LQ45>>
    /\ inv[1].altData[1] = <<>>
    /\ Len(inv[1].marketIndices.lq45) > 0

\* the calls of chart() / quote() that have gone to the provider and settled
SettledFetches == {f \in AllFetches : Settled(f) /\ ~f.hit}
EmptyResult(outcome) == outcome.ok /\ outcome.val \in {None, EmptyChart}
NotFoundOrEmpty(outcome) == EmptyResult(outcome) \/ outcome = Err(NotFound)
\* the attempts withRetry makes on the answers log: up to the first answer
\* that is not an error, Len(delays) at most
AttemptsMade(log) ==
    IF \E k \in 1..Len(log) : log[k].ok
    THEN CHOOSE k \in 1..Len(log) : log[k].ok /\ \A j \in 1..(k - 1) : ~log[j].ok
    ELSE Len(delays)

\* C23 (as stated): a symbol-not-found or empty-result outcome of a provider
\* call is never retried; for such an outcome chart() and quote() invoke the
\* provider exactly once for the request.
C23_NotFoundNeverRetried ==
    \A f \in SettledFetches :
        NotFoundOrEmpty(f.log[1]) => (f.r.calls = 1 /\ Len(f.log) = 1)

\* C23 (amended): an outcome that the provider returns (an empty series, an
\* absent quote) is never retried, the provider is invoked once for the
\* request and the result is returned; every outcome that the provider
\* raises as an error, symbol-not-found like a timeout, consumes the next
\* attempt, up to Len(delays) attempts in all.
C23_ReturnedNeverRetried ==
    \A f \in SettledFetches :
        /\ f.r.calls = Len(f.log)
        /\ f.r.calls = AttemptsMade(f.log)
        /\ EmptyResult(f.log[1]) => (f.r.calls = 1 /\ f.out = f.log[1])
        /\ (\A k \in 1..Len(f.log) : ~f.log[k].ok) => (f.r.calls = Len(delays) /\ ~f.out.ok)

\* C23 witness: a quote fetch whose one provider call returned no quote
C23_Witness ==
    \E f \in SettledFetches :
        /\ f.kind = "quote"
        /\ f.log = <<Ok(None)>>
        /\ f.r.calls = 1
        /\ provN[<<"quote", f.mapped>>] = 1
        /\ f.out = Ok(None)

\* C24 (as stated): withRetry waits only between two attempts: the waits are
\* the first delays of 200, 500, 1000 ms, one after each failed attempt that
\* is followed by another attempt; there is no wait before the first
\* attempt, after a successful attempt, or after the final failed attempt.
C24_WaitsOnlyBetweenAttempts ==
    /\ IsPrefix(rt.waits, <<200, 500, 1000>>)
    /\ rt.calls = 1 /\ rt.pc = "inflight" => rt.waits = <<>>
    /\ RetrySettled => Len(rt.waits) = rt.calls - 1

\* C25 (as stated): a provider call that never settles cannot stall the
\* snapshot: each attempt carries a timeout, so that an invocation that has
\* not returned always has a step to take (a call to settle, a timer to
\* fire, a continuation to run) and so eventually returns.
C25_NeverStalled ==
    \A n \in 1..MaxInv :
        (Started(n) /\ ~Resolved(n)) => ENABLED SnapSteps

\* the call of chart() / quote() at loc of invocation n throws in this step
ThrowsNow(n, loc) ==
    /\ ~Settled(getF(inv[n], loc))
    /\ Settled(getF(inv'[n], loc))
    /\ ~getF(inv'[n], loc).out.ok
\* an attempt of the call at loc of invocation n fails in this step
AttemptFailsNow(n, loc) ==
    /\ InFlight(getF(inv[n], loc))
    /\ Len(getF(inv'[n], loc).log) = Len(getF(inv[n], loc).log) + 1
    /\ ~getF(inv'[n], loc).log[Len(getF(inv'[n], loc).log)].ok
\* a fetch of the LQ45 key that follows an initial fetch which has thrown
AfterFailedLq45(n) ==
    /\ inv[n].pc = "alts"
    /\ inv[n].fi.alt.mapped = CARET_JKLQ45
    /\ ~inv[n].fi.lq45.out.ok

\* C26: failures are never cached.  No attempt that fails and no call that
\* throws writes the cache; when chart() / quote() throws, getCache on its
\* key is a miss right afterwards; and the next call with that key goes to
\* the provider again.
C26_FailuresNotCached ==
    [][\A n \in 1..MaxInv : \A loc \in Locs(n) :
          /\ AttemptFailsNow(n, loc) => cache' = cache
          /\ ThrowsNow(n, loc) =>
                 /\ cache' = cache
                 /\ getCacheValue(cache', getF(inv[n], loc).key, now') = None
          /\ AfterFailedLq45(n)' =>
                 (~inv'[n].fi.alt.hit /\ inv'[n].fi.alt.r.calls >= 1)]_vars

\* C26 witness: the initial LQ45 fetch has thrown after its attempts, the
\* key is not cached, and the alternative with the same key is with the
\* provider, as its fourth call
C26_Witness ==
    /\ AfterFailedLq45(1)
    /\ inv[1].fi.lq45.r.calls = Len(delays)
    /\ inv[1].fi.alt.key = inv[1].fi.lq45.key
    /\ InFlight(inv[1].fi.alt)
    /\ inv[1].fi.alt.nth = Len(delays) + 1
    /\ ~MapHas(cache, inv[1].fi.lq45.key)

\* the call at loc before this step, if there was one
OldF(n, loc) ==
    IF loc.w = "call" /\ loc.i > Len(inv[n].ct) THEN NoFetch ELSE getF(inv[n], loc)
\* a call of chart() / quote() at loc returns a cached value in this step
HitNow(n, loc) ==
    /\ getF(inv'[n], loc) # OldF(n, loc)
    /\ getF(inv'[n], loc).kind # "none"
    /\ getF(inv'[n], loc).hit
StaleLimit(kind) == IF kind = "chart" THEN 15 * 60 * 1000 ELSE 60 * 1000

\* C27: bounded staleness.  A value that chart() or quote() returns without
\* calling the provider is the value that the last successful provider
\* fetch of that key stored, at most 15 minutes (chart) or 60 seconds (quote)
\* earlier; and every cache entry expires exactly that long after the last
\* store of its key, whatever calls have been made since.
C27_BoundedStaleness ==
    [][/\ \A n \in 1..MaxInv : \A loc \in Locs(n)' :
              HitNow(n, loc) =>
                  LET f == getF(inv'[n], loc) IN
                  /\ MapHas(lastSet, f.key)
                  /\ f.out = Ok(lastSet[f.key].value)
                  /\ now >= lastSet[f.key].at
                  /\ now - lastSet[f.key].at <= StaleLimit(f.kind)
       /\ \A k \in DOMAIN cache' :
              /\ MapHas(lastSet', k)
              /\ cache'[k].value = lastSet'[k].value
              /\ cache'[k].expires = lastSet'[k].at + StaleLimit(k[1])]_vars

\* C27 witness: the second invocation starts exactly 60 seconds after the
\* quote was stored and is served the cached quote
C27_Witness ==
    /\ Len(inv[2].ct) = 1
    /\ inv[2].ct[1].pc = "quote"
    /\ inv[2].ct[1].f.hit
    /\ inv[2].endDate = lastSet[inv[2].ct[1].f.key].at + 60 * 1000
    /\ now = inv[2].endDate

AllLocs == {[n |-> n, loc |-> loc] : n \in 1..MaxInv, loc \in UNION {Locs(m) : m \in 1..MaxInv}}
FetchAt(a) == IF a.loc \in Locs(a.n) THEN getF(inv[a.n], a.loc) ELSE NoFetch
\* two calls of chart() / quote() with one key, neither answered from the cache
SameKeyCalls(f, g) ==
    /\ f.kind # "none" /\ g.kind # "none"
    /\ ~f.hit /\ ~g.hit
    /\ f.key = g.key
\* the call at loc of invocation n stores its result in this step
StoresNow(n, loc) ==
    /\ InFlight(getF(inv[n], loc))
    /\ Settled(getF(inv'[n], loc))
    /\ getF(inv'[n], loc).out.ok

\* C28: two calls with the same key that have both passed the cache lookup
\* each have their own provider call (no in-flight de-duplication); each
\* returns the answer to its own provider call; and a call that stores
\* replaces the entry of the key by its own value with an expiry counted
\* from its own store, so that the entry is that of the call that stored last.
C28_ConcurrentSameKey ==
    [][/\ \A a \in AllLocs, b \in AllLocs :
              (a # b /\ SameKeyCalls(FetchAt(a), FetchAt(b))
                     /\ InFlight(FetchAt(a)) /\ InFlight(FetchAt(b)))
                  => FetchAt(a).nth # FetchAt(b).nth
       /\ \A n \in 1..MaxInv : \A loc \in Locs(n) :
              StoresNow(n, loc) =>
                  LET f == getF(inv'[n], loc) IN
                  /\ f.out = ScriptAt(prov[<<f.kind, f.mapped>>], f.nth)
                  /\ cache'[f.key] = [value |-> f.out.val,
                                      expires |-> now + StaleLimit(f.kind)]
                  /\ \A k \in DOMAIN cache : k # f.key =>
                         (MapHas(cache', k) /\ cache'[k] = cache[k])]_vars

\* C28 witness: the series fetches of two Calls on one symbol were in flight
\* together; one was answered at once, the other after a retry with another
\* series; each has its own answer and the cache holds that of the later one
C28_Witness ==
    /\ Len(inv[1].ct) = 2
    /\ inv[1].ct[1].pc = "hist" /\ inv[1].ct[2].pc = "hist"
    /\ SameKeyCalls(inv[1].ct[1].f, inv[1].ct[2].f)
    /\ inv[1].ct[1].f.out = Ok(EmptyChart) /\ inv[1].ct[1].f.r.calls = 2
    /\ inv[1].ct[2].f.out = Ok(SomeChart) /\ inv[1].ct[2].f.r.calls = 1
    /\ cache[inv[1].ct[1].f.key] = [value |-> EmptyChart, expires |-> 200 + ChartTtl]

\* the initial 'LQ45.JK' request of invocation n succeeded with an empty series
InitialLq45Empty(n) ==
    /\ Settled(inv[n].fi.lq45)
    /\ inv[n].fi.lq45.out.ok
    /\ InitialLq45(n) = <<>>
\* the alternative being fetched is one of the two that are aliases of LQ45
AliasAlternative(n) ==
    /\ inv[n].pc = "alts"
    /\ inv[n].fi.alt.ticker \in {IDX_LQ45, LQ45_JK}
AltBeginsNow(n) ==
    /\ inv'[n].pc = "alts"
    /\ inv'[n].fi.alt # inv[n].fi.alt

RefreshesInFlight == {k \in 1..Len(refreshes) : refreshes[k].pc \in {"fetch", "json"}}

\* C30 (as stated): isLoading is true in every state in which a refreshData
\* call, started on mount or by the interval, is in flight, and is false once
\* none is in flight, whether the refreshes succeeded or failed.
C30_LoadingIffInFlight ==
    isLoading <=> RefreshesInFlight # {}

====
